---------------------------- MODULE Spec2Model ----------------------------
(***************************************************************************)
(* Backup lifecycle of the financial review dashboard                      *)
(* (src-tauri/src/main.rs): the tauri commands that load and save the      *)
(* document, create, list, prune, restore and delete its snapshots, over   *)
(* a small file system.                                                    *)
(*                                                                         *)
(* Strings (paths, file names, RFC 3339 times) are sequences of            *)
(* one-character strings, so that starts_with, ends_with, file_stem and    *)
(* the comparison of strings are computed character by character.  File    *)
(* contents are sequences of lexemes.  An Option is a sequence of length   *)
(* at most one: None is << >> and Some(v) is <<v>>.                        *)
(***************************************************************************)
EXTENDS Integers, Sequences, FiniteSets, TLC

(***************************************************************************)
(* Bounds of the model.                                                    *)
(***************************************************************************)
\* The clock of the store's specification shows InstantAt(0) .. InstantAt(StoreTicks).
StoreTicks == 1
\* The clock of the retention specification shows InstantAt(0) .. InstantAt(RetentionTicks).
RetentionTicks == 4
\* The clock of the naming specification shows InstantAt(0) .. InstantAt(NamingTicks).
NamingTicks == 1
\* The clock of the listing specification shows InstantAt(0) .. InstantAt(ListingTicks).
ListingTicks == 4
\* keep_count ranges over 0 .. MaxKeep.
MaxKeep == 3
\* At most MaxMetaFail entries of one directory scan have unreadable metadata.
MaxMetaFail == 1

(***************************************************************************)
(* Strings.                                                                *)
(***************************************************************************)
None == << >>
Some(v) == <<v>>

\* str::starts_with
StartsWith(s, prefix) ==
    /\ Len(prefix) <= Len(s)
    /\ SubSeq(s, 1, Len(prefix)) = prefix

\* str::ends_with
EndsWith(s, suffix) ==
    /\ Len(suffix) <= Len(s)
    /\ SubSeq(s, Len(s) - Len(suffix) + 1, Len(s)) = suffix

\* The position of the last occurrence of character c in s, 0 when absent.
LastIndexOf(s, c) ==
    LET at == {i \in 1..Len(s) : s[i] = c}
    IN  IF at = {} THEN 0 ELSE CHOOSE i \in at : \A j \in at : j <= i

\* The code point of the characters that occur in an RFC 3339 time.
CharCode(c) ==
    CASE c = "+" -> 43
      [] c = "-" -> 45
      [] c = "." -> 46
      [] c = "0" -> 48
      [] c = "1" -> 49
      [] c = "2" -> 50
      [] c = "3" -> 51
      [] c = "4" -> 52
      [] c = "5" -> 53
      [] c = "6" -> 54
      [] c = "7" -> 55
      [] c = "8" -> 56
      [] c = "9" -> 57
      [] c = ":" -> 58
      [] c = "T" -> 84

\* Ordering of String (<str as Ord>::cmp): lexicographic by code point, a
\* proper prefix being less.  -1, 0 or 1.
RECURSIVE StrCmp(_, _)
StrCmp(a, b) ==
    IF a = << >> /\ b = << >> THEN 0
    ELSE IF a = << >> THEN -1
    ELSE IF b = << >> THEN 1
    ELSE IF CharCode(Head(a)) < CharCode(Head(b)) THEN -1
    ELSE IF CharCode(Head(a)) > CharCode(Head(b)) THEN 1
    ELSE StrCmp(Tail(a), Tail(b))

Digit(n) ==
    CASE n = 0 -> "0" [] n = 1 -> "1" [] n = 2 -> "2" [] n = 3 -> "3"
      [] n = 4 -> "4" [] n = 5 -> "5" [] n = 6 -> "6" [] n = 7 -> "7"
      [] n = 8 -> "8" [] n = 9 -> "9"

\* n in decimal, zero-padded to width w (the low w digits).
RECURSIVE Pad(_, _)
Pad(n, w) ==
    IF w = 0 THEN << >>
    ELSE Pad(n \div 10, w - 1) \o <<Digit(n % 10)>>

(***************************************************************************)
(* Time.  An instant is seconds since the Unix epoch and nanoseconds.      *)
(***************************************************************************)
SecondsPerDay == 24 * 60 * 60

\* 2024-03-05T10:15:30Z.
Epoch0 == 19787 * SecondsPerDay + 10 * 3600 + 15 * 60 + 30

\* The instants of the model, increasing with i: the first three in the
\* same second, then one per second, with fractions that to_rfc3339 prints
\* with 0, 3, 9 and 6 digits.
NanosAt(i) ==
    CASE i % 4 = 0 -> 0
      [] i % 4 = 1 -> 500 * 1000 * 1000
      [] i % 4 = 2 -> 500 * 1000 * 1000 + 1
      [] i % 4 = 3 -> 1000

InstantAt(i) == [secs |-> Epoch0 + (IF i <= 2 THEN 0 ELSE i - 2), nanos |-> NanosAt(i)]

\* SystemTime's ordering.
TimeLE(a, b) ==
    \/ a.secs < b.secs
    \/ a.secs = b.secs /\ a.nanos <= b.nanos

TimeCmp(a, b) ==
    IF a = b THEN 0 ELSE IF TimeLE(a, b) THEN -1 ELSE 1

\* The civil date of a day number (days since 1970-01-01), as chrono
\* computes the fields of a DateTime<Utc>.
CivilFromDays(days) ==
    LET z   == days + 719468
        era == z \div 146097
        doe == z - era * 146097
        yoe == (doe - doe \div 1460 + doe \div 36524 - doe \div 146096) \div 365
        doy == doe - (365 * yoe + yoe \div 4 - yoe \div 100)
        mp  == (5 * doy + 2) \div 153
        d   == doy - (153 * mp + 2) \div 5 + 1
        m   == IF mp < 10 THEN mp + 3 ELSE mp - 9
        y   == yoe + era * 400 + (IF m <= 2 THEN 1 ELSE 0)
    IN  [year |-> y, month |-> m, day |-> d]

\* DateTime<Utc> of an instant: its calendar fields in UTC.
DateTimeUtc(t) ==
    LET date == CivilFromDays(t.secs \div SecondsPerDay)
        sod  == t.secs % SecondsPerDay
    IN  [year |-> date.year, month |-> date.month, day |-> date.day,
         hour |-> sod \div 3600, minute |-> (sod % 3600) \div 60,
         second |-> sod % 60, nanos |-> t.nanos]

\* The fraction of a second as to_rfc3339 prints it: nothing when zero,
\* else 3, 6 or 9 digits, the shortest that is exact.
FormatFraction(nanos) ==
    IF nanos = 0 THEN << >>
    ELSE IF nanos % 1000000 = 0 THEN <<".">> \o Pad(nanos \div 1000000, 3)
    ELSE IF nanos % 1000 = 0 THEN <<".">> \o Pad(nanos \div 1000, 6)
    ELSE <<".">> \o Pad(nanos, 9)

\* A timestamp that keeps the fraction of the second ("%Y-%m-%d_%H-%M-%S%.f").
FormatTimestampWithFraction(t) ==
    LET dt == DateTimeUtc(t)
    IN  Pad(dt.year, 4) \o <<"-">> \o Pad(dt.month, 2) \o <<"-">>
        \o Pad(dt.day, 2) \o <<"_">> \o Pad(dt.hour, 2) \o <<"-">>
        \o Pad(dt.minute, 2) \o <<"-">> \o Pad(dt.second, 2)
        \o FormatFraction(dt.nanos)

\* now.format("%Y-%m-%d_%H-%M-%S")
FormatTimestamp(t) ==
    LET dt == DateTimeUtc(t)
    IN  Pad(dt.year, 4) \o <<"-">> \o Pad(dt.month, 2) \o <<"-">>
        \o Pad(dt.day, 2) \o <<"_">> \o Pad(dt.hour, 2) \o <<"-">>
        \o Pad(dt.minute, 2) \o <<"-">> \o Pad(dt.second, 2)

\* DateTime<Utc>::to_rfc3339
ToRfc3339(t) ==
    LET dt == DateTimeUtc(t)
    IN  Pad(dt.year, 4) \o <<"-">> \o Pad(dt.month, 2) \o <<"-">>
        \o Pad(dt.day, 2) \o <<"T">> \o Pad(dt.hour, 2) \o <<":">>
        \o Pad(dt.minute, 2) \o <<":">> \o Pad(dt.second, 2)
        \o FormatFraction(dt.nanos) \o <<"+", "0", "0", ":", "0", "0">>

(***************************************************************************)
(* Paths (std::path::Path on a Unix-like system), for paths without        *)
(* trailing separators and without "." components after the first.         *)
(***************************************************************************)
Slash == "/"
Dot == "."

\* Path::file_name: the last component, None for the root, the empty path
\* and a path ending in "..".
FileName(p) ==
    LET name == SubSeq(p, LastIndexOf(p, Slash) + 1, Len(p))
    IN  IF name = << >> \/ name = <<Dot, Dot>> THEN None ELSE Some(name)

\* Path::parent: the path without its last component, None for the root
\* and the empty path; the parent of a bare file name is the empty path.
Parent(p) ==
    LET i == LastIndexOf(p, Slash)
    IN  IF p = << >> \/ p = <<Slash>> THEN None
        ELSE IF i = 0 THEN Some(<< >>)
        ELSE IF i = 1 THEN Some(<<Slash>>)
        ELSE Some(SubSeq(p, 1, i - 1))

\* Path::join of a directory and a relative name.
Join(dir, name) ==
    IF dir = << >> THEN name
    ELSE IF dir[Len(dir)] = Slash THEN dir \o name
    ELSE dir \o <<Slash>> \o name

\* The name up to its first dot after the first character: the name without
\* any of its extensions.
StemUpToFirstDot(name) ==
    LET dots == {i \in 2..Len(name) : name[i] = Dot}
    IN  IF name = <<Dot, Dot>> \/ dots = {} THEN name
        ELSE SubSeq(name, 1, (CHOOSE i \in dots : \A j \in dots : i <= j) - 1)

\* The stem of a file name (Path::file_stem after file_name): the name up
\* to its last dot; the whole name when it has no dot, or only a leading one.
StemOfName(name) ==
    LET i == LastIndexOf(name, Dot)
    IN  IF name = <<Dot, Dot>> \/ i <= 1 THEN name
        ELSE SubSeq(name, 1, i - 1)

\* Path::file_stem
FileStem(p) ==
    IF FileName(p) = None THEN None ELSE Some(StemOfName(FileName(p)[1]))


(***************************************************************************)
(* Documents and their JSON text.  A file's content is a sequence of       *)
(* lexemes; a JSON string is its text between two quote lexemes, a number  *)
(* its decimal digits, the white space of the pretty printer lexemes of    *)
(* its own.                                                                *)
(***************************************************************************)
Quote == "\""

\* impl Default for AppData
DefaultAppData ==
    [households |-> << >>,
     settings |-> [last_file_path |-> None, theme |-> "light",
                   auto_backup |-> TRUE, backup_count |-> 10],
     version |-> "1.0.0"]

\* n in decimal without padding (u32's Display).
RECURSIVE Decimal(_)
Decimal(n) ==
    IF n < 10 THEN <<Digit(n)>> ELSE Decimal(n \div 10) \o <<Digit(n % 10)>>

JsonString(s) == <<Quote, s, Quote>>
JsonBool(b) == IF b THEN <<"true">> ELSE <<"false">>
\* An Option<String> printed with None as the string "null".
JsonOptStringQuoted(o) == IF o = None THEN JsonString("null") ELSE JsonString(o[1])
JsonOptString(o) == IF o = None THEN <<"null">> ELSE JsonString(o[1])

\* PrettyFormatter: a new line and the indentation of depth d (two spaces each).
NewLine(d) == <<"\n">> \o [i \in 1..d |-> "  "]

\* The members of an object, or the elements of an array, one per line at
\* depth d, separated by commas.  items is a sequence of lexeme sequences.
RECURSIVE PrettyItems(_, _)
PrettyItems(items, d) ==
    IF items = << >> THEN << >>
    ELSE NewLine(d) \o Head(items)
         \o (IF Len(items) > 1 THEN <<",">> ELSE << >>)
         \o PrettyItems(Tail(items), d)

Member(key, value) == JsonString(key) \o <<": ">> \o value

\* An object whose members are printed at depth d + 1.
PrettyObject(members, d) ==
    IF members = << >> THEN <<"{", "}">>
    ELSE <<"{">> \o PrettyItems(members, d + 1) \o NewLine(d) \o <<"}">>

\* An array whose elements are printed at depth d + 1.
PrettyArray(elements, d) ==
    IF elements = << >> THEN <<"[", "]">>
    ELSE <<"[">> \o PrettyItems(elements, d + 1) \o NewLine(d) \o <<"]">>

\* #[derive(Serialize)] struct Person, at depth d.
PersonPretty(p, d) ==
    PrettyObject(<<Member("name", JsonString(p.name)),
                   Member("dob", JsonString(p.dob))>>, d)

\* #[derive(Serialize)] struct Household, at depth d: the fields in the
\* order of their declaration.  auc is held as the decimal text of the f64.
HouseholdPretty(h, d) ==
    PrettyObject(
      <<Member("id", Decimal(h.id)),
        Member("household_name", JsonString(h.household_name)),
        Member("persons",
               PrettyArray([i \in 1..Len(h.persons) |->
                              PersonPretty(h.persons[i], d + 2)], d + 1)),
        Member("next_review_due", JsonString(h.next_review_due)),
        Member("review_type", JsonString(h.review_type)),
        Member("auc", <<h.auc>>),
        Member("segment", JsonString(h.segment)),
        Member("last_review_date", JsonOptString(h.last_review_date)),
        Member("review_status", JsonString(h.review_status)),
        Member("priority_flag", JsonString(h.priority_flag)),
        Member("assigned_month", JsonOptString(h.assigned_month)),
        Member("created", JsonString(h.created)),
        Member("updated", JsonString(h.updated))>>, d)

\* #[derive(Serialize)] struct AppSettings, at depth d.
AppSettingsPretty(s, d) ==
    PrettyObject(
      <<Member("last_file_path", JsonOptString(s.last_file_path)),
        Member("theme", JsonString(s.theme)),
        Member("auto_backup", JsonBool(s.auto_backup)),
        Member("backup_count", Decimal(s.backup_count))>>, d)

\* serde_json::to_string_pretty(&data) of an AppData.
ToStringPretty(data) ==
    PrettyObject(
      <<Member("households",
               PrettyArray([i \in 1..Len(data.households) |->
                              HouseholdPretty(data.households[i], 2)], 1)),
        Member("settings", AppSettingsPretty(data.settings, 1)),
        Member("version", JsonString(data.version))>>, 0)


\* The serialization of create_backup and save_data_file: the Ok(json) of
\* to_string_pretty.  Every value of these types has a JSON text.
TrySerialize(data) == [ok |-> TRUE, json |-> ToStringPretty(data)]

(***************************************************************************)
(* Reading a document back: serde_json::from_str::<AppData> on the         *)
(* lexemes of a file.  White space between lexemes is skipped; the         *)
(* members of an object may come in any order; a member the struct does    *)
(* not have is skipped, one it has twice is an error, as is a missing one  *)
(* unless its type is an Option; nothing may follow the value.             *)
(***************************************************************************)
WhiteSpace == {"\n", "  ", " ", "\t"}
Digits == {Digit(n) : n \in 0..9}
\* The decimal texts of the f64 values of the model, each the text serde
\* prints for the f64 it reads from it.
F64Texts == {"0.0", "1250000.5"}
\* u32::MAX, 4294967295, in decimal.
MaxU32Digits == <<"4", "2", "9", "4", "9", "6", "7", "2", "9", "5">>

\* The lexemes of a text that are not white space.
Tokens(content) == SelectSeq(content, LAMBDA x : x \notin WhiteSpace)

DropFirst(t, n) == SubSeq(t, n + 1, Len(t))

\* The number of leading lexemes of t that are digits.
RECURSIVE DigitsLen(_)
DigitsLen(t) ==
    IF t = << >> \/ Head(t) \notin Digits THEN 0 ELSE 1 + DigitsLen(Tail(t))

\* The number a sequence of digits spells.
RECURSIVE NumberOf(_)
NumberOf(ds) ==
    IF ds = << >> THEN 0
    ELSE 10 * NumberOf(SubSeq(ds, 1, Len(ds) - 1))
           + (CHOOSE n \in 0..9 : Digit(n) = ds[Len(ds)])

\* Whether t begins with a JSON string: a quote, the text, a quote.
IsStringAt(t) == Len(t) >= 3 /\ t[1] = Quote /\ t[2] # Quote /\ t[3] = Quote

\* The number of lexemes of the JSON value t begins with, 0 when t does
\* not begin with a well-formed value.
RECURSIVE ValueLen(_)
RECURSIVE ElementsEnd(_, _)
RECURSIVE MembersEnd(_, _)
ValueLen(t) ==
    IF t = << >> THEN 0
    ELSE IF t[1] \in {"null", "true", "false"} \cup F64Texts THEN 1
    ELSE IF t[1] \in Digits
    THEN IF t[1] = "0" /\ DigitsLen(t) > 1 THEN 0 ELSE DigitsLen(t)
    ELSE IF t[1] = Quote THEN (IF IsStringAt(t) THEN 3 ELSE 0)
    ELSE IF t[1] = "["
    THEN IF Len(t) >= 2 /\ t[2] = "]" THEN 2 ELSE ElementsEnd(t, 2)
    ELSE IF t[1] = "{"
    THEN IF Len(t) >= 2 /\ t[2] = "}" THEN 2 ELSE MembersEnd(t, 2)
    ELSE 0

\* The index of the "]" that closes the array whose next element begins at
\* t[i], 0 when there is none.
ElementsEnd(t, i) ==
    LET n == ValueLen(DropFirst(t, i - 1))
        j == i + n
    IN  IF n = 0 \/ j > Len(t) THEN 0
        ELSE IF t[j] = "]" THEN j
        ELSE IF t[j] = "," THEN ElementsEnd(t, j + 1)
        ELSE 0

\* The index of the "}" that closes the object whose next member begins at
\* t[i], 0 when there is none.
MembersEnd(t, i) ==
    IF ~IsStringAt(DropFirst(t, i - 1)) \/ Len(t) < i + 3
          \/ t[i + 3] \notin {": ", ":"}
    THEN 0
    ELSE LET n == ValueLen(DropFirst(t, i + 3))
             j == i + 4 + n
         IN  IF n = 0 \/ j > Len(t) THEN 0
             ELSE IF t[j] = "}" THEN j
             ELSE IF t[j] = "," THEN MembersEnd(t, j + 1)
             ELSE 0

\* The elements of the array t, each the lexemes of its value; t is a
\* well-formed array and nothing more.
RECURSIVE ElementsFrom(_, _)
ElementsFrom(t, i) ==
    IF t[i] = "]" THEN << >>
    ELSE LET n == ValueLen(DropFirst(t, i - 1))
         IN  <<SubSeq(t, i, i + n - 1)>>
             \o (IF t[i + n] = "," THEN ElementsFrom(t, i + n + 1) ELSE << >>)

\* The members of the object t, each its key and the lexemes of its value;
\* t is a well-formed object and nothing more.
RECURSIVE MembersFrom(_, _)
MembersFrom(t, i) ==
    IF t[i] = "}" THEN << >>
    ELSE LET n == ValueLen(DropFirst(t, i + 3))
         IN  <<[key |-> t[i + 1], value |-> SubSeq(t, i + 4, i + 3 + n)]>>
             \o (IF t[i + 4 + n] = "," THEN MembersFrom(t, i + 5 + n) ELSE << >>)

\* The outcome of reading a value: Ok(value) or an error.
Good(v) == [ok |-> TRUE, value |-> v]
Bad == [ok |-> FALSE, value |-> << >>]

\* String
ParseString(v) == IF Len(v) = 3 /\ IsStringAt(v) THEN Good(v[2]) ELSE Bad

\* Option<String>: null is None.
ParseOptString(v) ==
    IF v = <<"null">> THEN Good(None)
    ELSE IF ParseString(v).ok THEN Good(Some(ParseString(v).value))
    ELSE Bad

\* bool
ParseBool(v) ==
    IF v = <<"true">> THEN Good(TRUE) ELSE IF v = <<"false">> THEN Good(FALSE) ELSE Bad

\* u32: digits without sign, fraction or exponent, at most u32::MAX.
ParseU32(v) ==
    IF v = << >> \/ DigitsLen(v) # Len(v) \/ ValueLen(v) # Len(v) THEN Bad
    ELSE IF Len(v) > 10 \/ (Len(v) = 10 /\ StrCmp(v, MaxU32Digits) = 1) THEN Bad
    ELSE Good(NumberOf(v))

\* f64: a number with a fraction reads as the f64 of its text; the integer
\* 0 reads as 0.0.
ParseF64(v) ==
    IF Len(v) = 1 /\ v[1] \in F64Texts THEN Good(v[1])
    ELSE IF v = <<"0">> THEN Good("0.0")
    ELSE Bad

\* The members of v when v is one object, in a struct's visit_map: Bad when
\* v is not an object.
ObjectMembers(v) ==
    IF v = << >> \/ v[1] # "{" \/ ValueLen(v) # Len(v) THEN Bad
    ELSE Good(IF Len(v) = 2 THEN << >> ELSE MembersFrom(v, 2))

\* The values the members give to key.
ValuesOf(members, key) ==
    LET found == SelectSeq(members, LAMBDA m : m.key = key)
    IN  [i \in 1..Len(found) |-> found[i].value]

\* Whether no field of names is given twice, and each is given once unless
\* it is one of optional.
FieldsGiven(members, names, optional) ==
    \A key \in names :
        /\ Len(ValuesOf(members, key)) <= 1
        /\ key \in optional \/ Len(ValuesOf(members, key)) = 1

\* The value of the member key, which is given once.
Field(members, key) == ValuesOf(members, key)[1]

\* The value of an Option<String> field: None when the member is missing.
OptStringField(members, key) ==
    IF ValuesOf(members, key) = << >> THEN Good(None)
    ELSE ParseOptString(Field(members, key))

\* The values of a sequence of outcomes, Bad when one of them is.
AllGood(outcomes) ==
    IF \E i \in DOMAIN outcomes : ~outcomes[i].ok THEN Bad
    ELSE Good([i \in DOMAIN outcomes |-> outcomes[i].value])

\* The struct of the fields read, Bad when one of them could not be read:
\* fields is a record of outcomes.
StructFrom(fields) ==
    IF \E k \in DOMAIN fields : ~fields[k].ok THEN Bad
    ELSE Good([k \in DOMAIN fields |-> fields[k].value])

\* visit_map of Person on the members o of an object.
PersonOf(o) ==
    IF ~o.ok THEN Bad
    ELSE IF ~FieldsGiven(o.value, {"name", "dob"}, {}) THEN Bad
    ELSE StructFrom([name |-> ParseString(Field(o.value, "name")),
                     dob |-> ParseString(Field(o.value, "dob"))])

ParsePerson(v) == PersonOf(ObjectMembers(v))

\* The elements of v when v is one array: Bad when it is not.
ArrayElements(v) ==
    IF v = << >> \/ v[1] # "[" \/ ValueLen(v) # Len(v) THEN Bad
    ELSE Good(IF Len(v) = 2 THEN << >> ELSE ElementsFrom(v, 2))

\* Vec<Person> from the elements a of an array.
PersonsOf(a) ==
    IF ~a.ok THEN Bad
    ELSE AllGood([i \in DOMAIN a.value |-> ParsePerson(a.value[i])])

ParsePersons(v) == PersonsOf(ArrayElements(v))

HouseholdFields ==
    {"id", "household_name", "persons", "next_review_due", "review_type", "auc",
     "segment", "last_review_date", "review_status", "priority_flag",
     "assigned_month", "created", "updated"}

\* visit_map of Household on the members o of an object.
HouseholdOf(o) ==
    IF ~o.ok THEN Bad
    ELSE IF ~FieldsGiven(o.value, HouseholdFields,
                         {"last_review_date", "assigned_month"}) THEN Bad
    ELSE StructFrom(
           [id |-> ParseU32(Field(o.value, "id")),
            household_name |-> ParseString(Field(o.value, "household_name")),
            persons |-> ParsePersons(Field(o.value, "persons")),
            next_review_due |-> ParseString(Field(o.value, "next_review_due")),
            review_type |-> ParseString(Field(o.value, "review_type")),
            auc |-> ParseF64(Field(o.value, "auc")),
            segment |-> ParseString(Field(o.value, "segment")),
            last_review_date |-> OptStringField(o.value, "last_review_date"),
            review_status |-> ParseString(Field(o.value, "review_status")),
            priority_flag |-> ParseString(Field(o.value, "priority_flag")),
            assigned_month |-> OptStringField(o.value, "assigned_month"),
            created |-> ParseString(Field(o.value, "created")),
            updated |-> ParseString(Field(o.value, "updated"))])

ParseHousehold(v) == HouseholdOf(ObjectMembers(v))

\* Vec<Household> from the elements a of an array.
HouseholdsOf(a) ==
    IF ~a.ok THEN Bad
    ELSE AllGood([i \in DOMAIN a.value |-> ParseHousehold(a.value[i])])

ParseHouseholds(v) == HouseholdsOf(ArrayElements(v))

\* visit_map of AppSettings on the members o of an object.
AppSettingsOf(o) ==
    IF ~o.ok THEN Bad
    ELSE IF ~FieldsGiven(o.value,
                         {"last_file_path", "theme", "auto_backup", "backup_count"},
                         {"last_file_path"}) THEN Bad
    ELSE StructFrom(
           [last_file_path |-> OptStringField(o.value, "last_file_path"),
            theme |-> ParseString(Field(o.value, "theme")),
            auto_backup |-> ParseBool(Field(o.value, "auto_backup")),
            backup_count |-> ParseU32(Field(o.value, "backup_count"))])

ParseAppSettings(v) == AppSettingsOf(ObjectMembers(v))

\* visit_map of AppData on the members o of an object.
AppDataOf(o) ==
    IF ~o.ok THEN Bad
    ELSE IF ~FieldsGiven(o.value, {"households", "settings", "version"}, {}) THEN Bad
    ELSE StructFrom([households |-> ParseHouseholds(Field(o.value, "households")),
                     settings |-> ParseAppSettings(Field(o.value, "settings")),
                     version |-> ParseString(Field(o.value, "version"))])

\* serde_json::from_str::<AppData>(&content)
FromStr(content) == AppDataOf(ObjectMembers(Tokens(content)))

(***************************************************************************)
(* The file system: the directories that exist, and the files, each with   *)
(* its bytes and its creation time (Metadata::created, which a later       *)
(* write to the same path leaves alone).                                   *)
(***************************************************************************)
VARIABLES
    dirs,     \* the paths of the directories that exist
    files,    \* path |-> [bytes, created], for the files that exist
    clock,    \* the system clock shows InstantAt(clock)
    last,     \* the command whose response is in flight: its arguments, its
              \* result, the files before it; op is "none" between commands
    made,     \* snapshot path |-> the create_backup call that made the file
    gone      \* the paths delete_backup removed that have not been written since

vars == <<dirs, files, clock, last, made, gone>>

Root == <<"/">>
\* The working directory of the process.
Cwd == <<"/", "w">>
DataDir == <<"/", "d", "a", "t", "a">>
HousePath == DataDir \o <<"/", "h", "o", "u", "s", "e", ".", "j", "s", "o", "n">>

\* The absolute path a path names; the empty path names nothing.
Canon(p) ==
    IF p = << >> THEN << >>
    ELSE IF Head(p) = Slash THEN p
    ELSE IF p = <<Dot>> THEN Cwd
    ELSE IF StartsWith(p, <<Dot, Slash>>) THEN Cwd \o Tail(p)
    ELSE Cwd \o <<Slash>> \o p

\* Path::exists
Exists(p) == Canon(p) \in dirs \/ Canon(p) \in DOMAIN files

IsFile(p) == Canon(p) \in DOMAIN files

Now == InstantAt(clock)

\* f with the file at path cp holding bytes: a new file is created at t,
\* an existing one is truncated and rewritten and keeps its creation time.
Stored(f, cp, bytes, t) ==
    [x \in DOMAIN f \cup {cp} |->
        IF x = cp
        THEN [bytes |-> bytes,
              created |-> IF cp \in DOMAIN f THEN f[cp].created ELSE t]
        ELSE f[x]]

\* f without the files at paths.
Removed(f, paths) == [x \in DOMAIN f \ paths |-> f[x]]

\* Whether the file at p can be opened for writing: p names no directory
\* and its parent directory exists.
CanOpenForWrite(p) ==
    LET cp == Canon(p)
    IN  /\ cp # << >>
        /\ cp \notin dirs
        /\ Parent(cp) # None
        /\ Parent(cp)[1] \in dirs

\* What the operating system does to a write: "none" lets it through,
\* "denied" fails the open, "partial" fails after the file was truncated.
WriteFaults == {"none", "denied", "partial"}

\* fs::write(p, bytes) at instant t.
FsWrite(p, bytes, t, fault) ==
    IF ~CanOpenForWrite(p) \/ fault = "denied"
    THEN [ok |-> FALSE, files |-> files]
    ELSE IF fault = "partial"
    THEN [ok |-> FALSE, files |-> Stored(files, Canon(p), << >>, t)]
    ELSE [ok |-> TRUE, files |-> Stored(files, Canon(p), bytes, t)]

\* fs::copy(from, to) at instant t.  Copying a file onto itself opens the
\* destination with truncation before anything is read (Unix: the file is
\* left empty and the call succeeds) or fails on the open (Windows: sharing
\* violation): sameFile chooses between the two.
SameFileOutcomes == {"truncated", "refused"}

\* fs::copy with its arguments exchanged: the bytes go from to to from.
FsCopyExchanged(from, to, t, fault, sameFile) ==
    IF ~IsFile(to) THEN [ok |-> FALSE, files |-> files]
    ELSE IF Canon(from) = Canon(to)
    THEN IF sameFile = "truncated" /\ fault = "none"
         THEN [ok |-> TRUE, files |-> Stored(files, Canon(from), << >>, t)]
         ELSE [ok |-> FALSE, files |-> files]
    ELSE FsWrite(from, files[Canon(to)].bytes, t, fault)

FsCopy(from, to, t, fault, sameFile) ==
    IF ~IsFile(from) THEN [ok |-> FALSE, files |-> files]
    ELSE IF Canon(from) = Canon(to)
    THEN IF sameFile = "truncated" /\ fault = "none"
         THEN [ok |-> TRUE, files |-> Stored(files, Canon(to), << >>, t)]
         ELSE [ok |-> FALSE, files |-> files]
    ELSE FsWrite(to, files[Canon(from)].bytes, t, fault)

(***************************************************************************)
(* Directory scans.                                                        *)
(***************************************************************************)
BackupInfix == <<"_", "b", "a", "c", "k", "u", "p", "_">>
JsonSuffix == <<".", "j", "s", "o", "n">>

\* The names of the entries of the directory at canonical path d.
EntryNames(d) == {FileName(f)[1] : f \in {g \in DOMAIN files : Parent(g) = Some(d)}}

\* The orders in which read_dir may yield a set of names: any.
Orders(names) ==
    {o \in [1..Cardinality(names) -> names] :
        \A i, j \in 1..Cardinality(names) : i # j => o[i] # o[j]}

\* file_name.starts_with(&format!("{}_backup_", file_stem)) && file_name.ends_with(".json")
IsBackupName(file_name, file_stem) ==
    /\ StartsWith(file_name, file_stem \o BackupInfix)
    /\ EndsWith(file_name, JsonSuffix)

\* The comparator with its operands the other way round: oldest first.
OldestFirst(a, b) == TimeCmp(a.created, b.created)

\* |a, b| b.1.cmp(&a.1) of cleanup_old_backups: by creation time, newest first.
NewestFirst(a, b) == TimeCmp(b.created, a.created)

\* The comparator with its operands the other way round: least text first.
CreatedTextAscending(a, b) == StrCmp(a.created, b.created)

\* |a, b| b.created.cmp(&a.created) of export_backup_list: by the RFC 3339
\* text of the creation time, greatest first.
CreatedTextDescending(a, b) == StrCmp(b.created, a.created)

\* s with e put before the first of the positions in after (the elements
\* the comparator orders after e), at the end when there is none: one step
\* of a stable sort.
InsertBefore(s, e, after) ==
    LET pos == IF after = {} THEN Len(s) + 1
               ELSE CHOOSE i \in after : \A j \in after : i <= j
    IN  SubSeq(s, 1, pos - 1) \o <<e>> \o SubSeq(s, pos, Len(s))

\* A sort newest first that is not stable: of two entries created at the
\* same time, the one read later comes first.
RECURSIVE SortNewestFirstTiesReversed(_)
SortNewestFirstTiesReversed(s) ==
    IF s = << >> THEN << >>
    ELSE LET front == SortNewestFirstTiesReversed(SubSeq(s, 1, Len(s) - 1))
             e == s[Len(s)]
         IN  InsertBefore(front, e,
                 {j \in 1..Len(front) : NewestFirst(front[j], e) # -1})

\* backups.sort_by(|a, b| b.1.cmp(&a.1)): stable.
RECURSIVE SortNewestFirst(_)
SortNewestFirst(s) ==
    IF s = << >> THEN << >>
    ELSE LET front == SortNewestFirst(SubSeq(s, 1, Len(s) - 1))
             e == s[Len(s)]
         IN  InsertBefore(front, e,
                 {j \in 1..Len(front) : NewestFirst(front[j], e) = 1})

\* backups.sort_by(|a, b| b.created.cmp(&a.created)): stable.
RECURSIVE SortCreatedTextDescending(_)
SortCreatedTextDescending(s) ==
    IF s = << >> THEN << >>
    ELSE LET front == SortCreatedTextDescending(SubSeq(s, 1, Len(s) - 1))
             e == s[Len(s)]
         IN  InsertBefore(front, e,
                 {j \in 1..Len(front) : CreatedTextDescending(front[j], e) = 1})

\* The loop over read_dir of cleanup_old_backups: (entry.path(), created) of
\* the entries, in the order read, whose name matches and whose metadata
\* can be read.
CollectBackups(directory, file_stem, order, noMeta) ==
    LET kept == SelectSeq(order, LAMBDA n : IsBackupName(n, file_stem) /\ n \notin noMeta)
    IN  [i \in 1..Len(kept) |->
            [path |-> Join(directory, kept[i]),
             created |-> files[Canon(Join(directory, kept[i]))].created]]

\* The loop over read_dir of export_backup_list: the BackupInfo of the same
\* entries.
CollectBackupInfo(directory, file_stem, order, noMeta) ==
    LET kept == SelectSeq(order, LAMBDA n : IsBackupName(n, file_stem) /\ n \notin noMeta)
    IN  [i \in 1..Len(kept) |->
            [filename |-> kept[i],
             path |-> Join(directory, kept[i]),
             created |-> ToRfc3339(files[Canon(Join(directory, kept[i]))].created),
             size |-> Len(files[Canon(Join(directory, kept[i]))].bytes)]]

\* A skip that never skips nothing: it keeps one element back for n = 0.
SkipKeepingOne(s, n) ==
    IF n >= Len(s) \/ Len(s) = 1 THEN << >>
    ELSE SubSeq(s, IF n = 0 THEN 2 ELSE n + 1, Len(s))

\* Iterator::skip
Skip(s, n) == IF n >= Len(s) THEN << >> ELSE SubSeq(s, n + 1, Len(s))

Range(s) == {s[i] : i \in DOMAIN s}


(***************************************************************************)
(* The arguments the commands are called with.                             *)
(***************************************************************************)
DarkAppData ==
    [DefaultAppData EXCEPT !.settings.theme = "dark", !.settings.auto_backup = FALSE]

Docs == {DefaultAppData, DarkAppData}

\* A document with a household: two persons, one Option filled and one not.
SmithAppData ==
    [DefaultAppData EXCEPT
       !.households =
          <<[id |-> 7, household_name |-> "Smith",
             persons |-> <<[name |-> "Ann Smith", dob |-> "1970-01-31"],
                           [name |-> "Bob Smith", dob |-> "1968-12-01"]>>,
             next_review_due |-> "2024-06-30", review_type |-> "Required",
             auc |-> "1250000.5", segment |-> "Green",
             last_review_date |-> None, review_status |-> "Scheduled",
             priority_flag |-> "High", assigned_month |-> Some("2024-06"),
             created |-> "2024-01-02", updated |-> "2024-03-05"] >>,
       !.settings.last_file_path = Some("/data/house.json"),
       !.settings.backup_count = 4294]

\* The data argument of a command: an AppData, a JSON value that is an
\* object (held as the document it spells) or a JSON value that is a string.
NoData == [kind |-> "none", doc |-> DefaultAppData, text |-> << >>]
DocData(d) == [kind |-> "doc", doc |-> d, text |-> << >>]
ObjectValue(d) == [kind |-> "object", doc |-> d, text |-> << >>]
StringValue(t) == [kind |-> "string", doc |-> DefaultAppData, text |-> t]

CsvText == <<"id,household_name", "\n", "1,Smith">>

SaveValues == {ObjectValue(DarkAppData), StringValue(CsvText)}

\* serde_json::to_string_pretty of a serde_json::Value that is an object
\* spelling an AppData: a Value's map keeps its keys sorted (the default,
\* BTreeMap-backed Map), so the members come in alphabetical order.
PersonValuePretty(p, d) ==
    PrettyObject(<<Member("dob", JsonString(p.dob)),
                   Member("name", JsonString(p.name))>>, d)

HouseholdValuePretty(h, d) ==
    PrettyObject(
      <<Member("assigned_month", JsonOptString(h.assigned_month)),
        Member("auc", <<h.auc>>),
        Member("created", JsonString(h.created)),
        Member("household_name", JsonString(h.household_name)),
        Member("id", Decimal(h.id)),
        Member("last_review_date", JsonOptString(h.last_review_date)),
        Member("next_review_due", JsonString(h.next_review_due)),
        Member("persons",
               PrettyArray([i \in 1..Len(h.persons) |->
                              PersonValuePretty(h.persons[i], d + 2)], d + 1)),
        Member("priority_flag", JsonString(h.priority_flag)),
        Member("review_status", JsonString(h.review_status)),
        Member("review_type", JsonString(h.review_type)),
        Member("segment", JsonString(h.segment)),
        Member("updated", JsonString(h.updated))>>, d)

ValueToStringPretty(doc) ==
    PrettyObject(
      <<Member("households",
               PrettyArray([i \in 1..Len(doc.households) |->
                              HouseholdValuePretty(doc.households[i], 2)], 1)),
        Member("settings",
               PrettyObject(
                 <<Member("auto_backup", JsonBool(doc.settings.auto_backup)),
                   Member("backup_count", Decimal(doc.settings.backup_count)),
                   Member("last_file_path", JsonOptString(doc.settings.last_file_path)),
                   Member("theme", JsonString(doc.settings.theme))>>, 1)),
        Member("version", JsonString(doc.version))>>, 0)

HouseStem == <<"h", "o", "u", "s", "e">>

\* file_stem of create_backup: file_path.file_stem(), "backup" when there
\* is none.
BackupStem(path) ==
    IF FileStem(path) = None THEN <<"b", "a", "c", "k", "u", "p">>
    ELSE FileStem(path)[1]

\* parent_dir of create_backup: file_path.parent(), "." when there is none.
BackupDir(path) == IF Parent(path) = None THEN <<Dot>> ELSE Parent(path)[1]

\* The snapshot path create_backup derives from path at instant t.
BackupPath(path, t) ==
    LET backup_name == BackupStem(path) \o BackupInfix \o FormatTimestamp(t) \o JsonSuffix
    IN  Join(BackupDir(path), backup_name)

(***************************************************************************)
(* The record of the last command.                                         *)
(***************************************************************************)
NoFault == [write |-> "none", readDir |-> FALSE, noMeta |-> {},
            undeletable |-> {}, remove |-> FALSE, read |-> FALSE]

Cmd(op) ==
    [op |-> op, path |-> << >>, target |-> << >>, stem |-> << >>, keep |-> 0,
     order |-> << >>, data |-> NoData, at |-> Now, ok |-> TRUE, err |-> "",
     retPath |-> << >>, retList |-> << >>, retDoc |-> None, retBool |-> None,
     pre |-> files, preMade |-> made, fault |-> NoFault]

\* No command is in flight.
NoCmd ==
    [op |-> "none", path |-> << >>, target |-> << >>, stem |-> << >>, keep |-> 0,
     order |-> << >>, data |-> NoData, at |-> InstantAt(0), ok |-> TRUE, err |-> "",
     retPath |-> << >>, retList |-> << >>, retDoc |-> None, retBool |-> None,
     pre |-> << >>, preMade |-> << >>, fault |-> NoFault]

Idle == last.op = "none"

\* The state after start-up, with the directories in present.
InitWith(present) ==
    /\ dirs = present
    /\ files = << >>
    /\ clock = 0
    /\ made = << >>
    /\ gone = {}
    /\ last = NoCmd

\* The caller takes the response of the command: the commands are called
\* one at a time (tauri commands of a single window, awaited by the caller).
Return ==
    /\ ~Idle
    /\ last' = NoCmd
    /\ UNCHANGED <<dirs, files, clock, made, gone>>

\* The clock advances, up to InstantAt(max).
Tick(max) ==
    /\ Idle
    /\ clock < max
    /\ clock' = clock + 1
    /\ UNCHANGED <<dirs, files, last, made, gone>>

\* m for the files of f.
MadeIn(m, f) == [x \in DOMAIN m \cap DOMAIN f |-> m[x]]

\* The directories above the absolute path p.
RECURSIVE Ancestors(_)
Ancestors(p) ==
    IF Parent(p) = None \/ Parent(p) = Some(<< >>) THEN {}
    ELSE {Parent(p)[1]} \cup Ancestors(Parent(p)[1])

\* create_directory: fs::create_dir_all makes the directory and those above
\* it that are missing, succeeds when it exists already, and fails when a
\* file stands at one of these paths.
CreateDirectory(path) ==
    LET needed == {Canon(path)} \cup Ancestors(Canon(path))
        blocked == Canon(path) = << >> \/ needed \cap DOMAIN files # {}
    IN  /\ Idle
        /\ dirs' = IF blocked THEN dirs ELSE dirs \cup needed
        /\ last' = [Cmd("create_directory") EXCEPT
                      !.path = path, !.ok = ~blocked,
                      !.err = IF blocked THEN "Failed to create directory" ELSE ""]
        /\ UNCHANGED <<files, clock, made, gone>>

\* save_data_file
SaveDataFile(path, data, fault) ==
    LET content == IF data.kind = "string" THEN data.text
                   ELSE ValueToStringPretty(data.doc)
        w == FsWrite(path, content, Now, fault)
    IN  /\ Idle
        /\ files' = w.files
        /\ last' = [Cmd("save_data_file") EXCEPT
                      !.path = path, !.data = data, !.fault.write = fault,
                      !.ok = w.ok,
                      !.err = IF w.ok THEN "" ELSE "Failed to write file"]
        /\ gone' = gone \ DOMAIN files'
        /\ UNCHANGED <<dirs, clock, made>>

\* create_backup
CreateBackup(path, data, fault) ==
    LET backup_path == BackupPath(path, Now)
        ser == TrySerialize(data)
        w == FsWrite(backup_path, ser.json, Now, fault)
        cp == Canon(backup_path)
    IN  /\ Idle
        /\ IF ser.ok
           THEN /\ files' = w.files
                /\ last' = [Cmd("create_backup") EXCEPT
                              !.path = path, !.data = DocData(data),
                              !.fault.write = fault, !.ok = w.ok,
                              !.err = IF w.ok THEN "" ELSE "Failed to create backup",
                              !.retPath = IF w.ok THEN backup_path ELSE << >>]
                /\ made' = IF w.ok /\ cp \notin DOMAIN made
                           THEN [x \in DOMAIN made \cup {cp} |->
                                   IF x = cp
                                   THEN [base |-> path, data |-> data, at |-> Now]
                                   ELSE made[x]]
                           ELSE made
           ELSE /\ last' = [Cmd("create_backup") EXCEPT
                              !.path = path, !.data = DocData(data), !.ok = FALSE,
                              !.err = "Failed to serialize backup data"]
                /\ UNCHANGED <<files, made>>
        /\ gone' = gone \ DOMAIN files'
        /\ UNCHANGED <<dirs, clock>>

\* The entries read_dir yields for directory, in the given order; none when
\* read_dir fails (directory is a file, or the operating system refuses).
ReadDir(directory, order, fails) ==
    IF fails \/ Canon(directory) \notin dirs THEN << >> ELSE order

\* The (path, created) pairs of cleanup_old_backups after its sort.
SortedBackups(directory, file_stem, order, fault) ==
    SortNewestFirst(
        CollectBackups(directory, file_stem,
                       ReadDir(directory, order, fault.readDir), fault.noMeta))

\* The files cleanup_old_backups calls remove_file on.
Victims(directory, file_stem, keep_count, order, fault) ==
    IF ~Exists(directory) THEN {}
    ELSE {Canon(b.path) :
            b \in Range(Skip(SortedBackups(directory, file_stem, order, fault),
                             keep_count))}

\* cleanup_old_backups that reports a removal that failed.
CleanupOldBackupsStrict(directory, file_stem, keep_count, order, fault) ==
    LET victims == Victims(directory, file_stem, keep_count, order, fault)
        failed == victims \cap fault.undeletable # {}
    IN  /\ Idle
        /\ files' = Removed(files, victims \ fault.undeletable)
        /\ made' = MadeIn(made, files')
        /\ last' = [Cmd("cleanup_old_backups") EXCEPT
                      !.path = directory, !.stem = file_stem,
                      !.keep = keep_count, !.fault = fault,
                      !.ok = ~failed,
                      !.err = IF failed THEN "Failed to remove backup" ELSE ""]
        /\ UNCHANGED <<dirs, clock, gone>>

\* The files of a sequence of backups up to the first that is in stop.
RECURSIVE UntilFirst(_, _)
UntilFirst(backups, stop) ==
    IF backups = << >> \/ Canon(Head(backups).path) \in stop THEN {}
    ELSE {Canon(Head(backups).path)} \cup UntilFirst(Tail(backups), stop)

\* cleanup_old_backups that gives up at the first removal that fails.
CleanupOldBackupsAborting(directory, file_stem, keep_count, order, fault) ==
    LET doomed == IF ~Exists(directory) THEN << >>
                  ELSE Skip(SortedBackups(directory, file_stem, order, fault),
                            keep_count)
    IN  /\ Idle
        /\ files' = Removed(files, UntilFirst(doomed, fault.undeletable))
        /\ made' = MadeIn(made, files')
        /\ last' = [Cmd("cleanup_old_backups") EXCEPT
                      !.path = directory, !.stem = file_stem,
                      !.keep = keep_count, !.fault = fault]
        /\ UNCHANGED <<dirs, clock, gone>>

\* cleanup_old_backups.  remove_file fails on the files of fault.undeletable.
CleanupOldBackups(directory, file_stem, keep_count, order, fault) ==
    /\ Idle
    /\ files' = Removed(files,
                   Victims(directory, file_stem, keep_count, order, fault)
                       \ fault.undeletable)
    /\ made' = MadeIn(made, files')
    /\ last' = [Cmd("cleanup_old_backups") EXCEPT
                  !.path = directory, !.stem = file_stem,
                  !.keep = keep_count, !.order = order, !.fault = fault]
    /\ UNCHANGED <<dirs, clock, gone>>

\* The list export_backup_list returns.
ListedBackups(directory, file_stem, order, fault) ==
    IF ~Exists(directory) THEN << >>
    ELSE SortCreatedTextDescending(
             CollectBackupInfo(directory, file_stem,
                 ReadDir(directory, order, fault.readDir), fault.noMeta))

\* export_backup_list
ExportBackupList(directory, file_stem, order, fault) ==
    /\ Idle
    /\ last' = [Cmd("export_backup_list") EXCEPT
                  !.path = directory, !.stem = file_stem, !.fault = fault,
                  !.retList = ListedBackups(directory, file_stem, order, fault)]
    /\ UNCHANGED <<dirs, files, clock, made, gone>>

\* restore_backup without its check that the backup exists.
RestoreBackupUnchecked(backup_path, target_path, fault, sameFile) ==
    LET c == FsCopy(backup_path, target_path, Now, fault, sameFile)
    IN  /\ Idle
        /\ files' = c.files
        /\ last' = [Cmd("restore_backup") EXCEPT
                      !.path = backup_path, !.target = target_path,
                      !.fault.write = fault, !.ok = c.ok,
                      !.err = IF c.ok THEN "" ELSE "Failed to restore backup"]
        /\ gone' = gone \ DOMAIN files'
        /\ UNCHANGED <<dirs, clock, made>>

\* restore_backup
RestoreBackup(backup_path, target_path, fault, sameFile) ==
    /\ Idle
    /\ IF ~Exists(backup_path)
       THEN /\ last' = [Cmd("restore_backup") EXCEPT
                          !.path = backup_path, !.target = target_path,
                          !.ok = FALSE, !.err = "Backup file does not exist"]
            /\ UNCHANGED <<dirs, files, clock, made, gone>>
       ELSE LET c == FsCopy(backup_path, target_path, Now, fault, sameFile)
            IN  /\ files' = c.files
                /\ last' = [Cmd("restore_backup") EXCEPT
                              !.path = backup_path, !.target = target_path,
                              !.fault.write = fault, !.ok = c.ok,
                              !.err = IF c.ok THEN "" ELSE "Failed to restore backup"]
                /\ gone' = gone \ DOMAIN files'
                /\ UNCHANGED <<dirs, clock, made>>

\* delete_backup that takes an absent file for deleted.
DeleteBackupLenient(backup_path, fails) ==
    LET removed == IsFile(backup_path) /\ ~fails
        done == removed \/ ~Exists(backup_path)
    IN  /\ Idle
        /\ files' = IF removed THEN Removed(files, {Canon(backup_path)}) ELSE files
        /\ made' = MadeIn(made, files')
        /\ last' = [Cmd("delete_backup") EXCEPT
                      !.path = backup_path, !.fault.remove = fails,
                      !.ok = done,
                      !.err = IF done THEN "" ELSE "Failed to delete backup"]
        /\ gone' = IF removed THEN gone \cup {Canon(backup_path)} ELSE gone
        /\ UNCHANGED <<dirs, clock>>

\* delete_backup.  fs::remove_file fails on a directory, and when the
\* operating system refuses (fails).
DeleteBackup(backup_path, fails) ==
    /\ Idle
    /\ IF ~Exists(backup_path)
       THEN /\ last' = [Cmd("delete_backup") EXCEPT
                          !.path = backup_path,
                          !.ok = FALSE, !.err = "Backup file does not exist"]
            /\ UNCHANGED <<dirs, files, clock, made, gone>>
       ELSE LET removed == IsFile(backup_path) /\ ~fails
            IN  /\ files' = IF removed THEN Removed(files, {Canon(backup_path)})
                            ELSE files
                /\ made' = MadeIn(made, files')
                /\ last' = [Cmd("delete_backup") EXCEPT
                              !.path = backup_path, !.fault.remove = fails,
                              !.ok = removed,
                              !.err = IF removed THEN "" ELSE "Failed to delete backup"]
                /\ gone' = IF removed THEN gone \cup {Canon(backup_path)} ELSE gone
                /\ UNCHANGED <<dirs, clock>>

\* The faults a directory scan of directory for file_stem may meet.
ScanFaults(directory, file_stem) ==
    LET matching == {n \in EntryNames(Canon(directory)) : IsBackupName(n, file_stem)}
    IN  {[NoFault EXCEPT !.readDir = TRUE]}
          \cup {[NoFault EXCEPT !.noMeta = m] :
                   m \in {x \in SUBSET matching : Cardinality(x) <= MaxMetaFail}}

\* cleanup_old_backups on any directory order, with any faults.
Cleanup(directory, file_stem, keep_count) ==
    /\ Idle
    /\ \E order \in Orders(EntryNames(Canon(directory))) :
          \E scan \in ScanFaults(directory, file_stem) :
             \E undeletable \in
                   SUBSET Victims(directory, file_stem, keep_count, order, scan) :
                CleanupOldBackups(directory, file_stem, keep_count, order,
                                  [scan EXCEPT !.undeletable = undeletable])

\* export_backup_list on any directory order, with any faults.
List(directory, file_stem) ==
    /\ Idle
    /\ \E order \in Orders(EntryNames(Canon(directory))) :
          \E scan \in ScanFaults(directory, file_stem) :
             ExportBackupList(directory, file_stem, order, scan)

\* A directory that is never created.
MissingDir == <<"/", "n", "o", "n", "e">>

JsonMarker == <<"{">>

\* A load that answers a file it cannot parse with the default document.
LoadResponseLenient(path, unreadable) ==
    LET content == files[Canon(path)].bytes
        parsed == FromStr(content)
    IN  IF ~Exists(path) THEN [ok |-> TRUE, err |-> "", doc |-> Some(DefaultAppData)]
        ELSE IF ~IsFile(path) \/ unreadable
        THEN [ok |-> FALSE, err |-> "Failed to read file", doc |-> None]
        ELSE IF StartsWith(content, JsonMarker) /\ parsed.ok
        THEN [ok |-> TRUE, err |-> "", doc |-> Some(parsed.value)]
        ELSE [ok |-> TRUE, err |-> "", doc |-> Some(DefaultAppData)]

\* The response of load_data_file for the file system as it is; unreadable
\* is whether the operating system fails the read of an existing file.
LoadResponse(path, unreadable) ==
    LET content == files[Canon(path)].bytes
        parsed == FromStr(content)
    IN  IF ~Exists(path) THEN [ok |-> TRUE, err |-> "", doc |-> Some(DefaultAppData)]
        ELSE IF ~IsFile(path) \/ unreadable
        THEN [ok |-> FALSE, err |-> "Failed to read file", doc |-> None]
        ELSE IF StartsWith(content, JsonMarker)
        THEN IF parsed.ok
             THEN [ok |-> TRUE, err |-> "", doc |-> Some(parsed.value)]
             ELSE [ok |-> FALSE, err |-> "Failed to parse JSON", doc |-> None]
        ELSE [ok |-> FALSE, err |-> "File is not a valid JSON data file", doc |-> None]

\* load_data_file
LoadDataFile(path, unreadable) ==
    LET r == LoadResponse(path, unreadable)
    IN  /\ Idle
        /\ last' = [Cmd("load_data_file") EXCEPT
                      !.path = path, !.fault.read = unreadable,
                      !.ok = r.ok, !.err = r.err, !.retDoc = r.doc]
        /\ UNCHANGED <<dirs, files, clock, made, gone>>

\* Path::is_absolute (Unix): the path begins at the root.
IsAbsolute(p) == p # << >> /\ Head(p) = Slash

\* validate_file_path
ValidateFilePath(path) ==
    LET parent == Parent(path)
        response ==
            IF ~IsAbsolute(path)
            THEN [ok |-> FALSE, err |-> "Path must be absolute", is |-> None]
            ELSE IF parent # None /\ ~Exists(parent[1])
            THEN [ok |-> FALSE, err |-> "Parent directory does not exist", is |-> None]
            ELSE [ok |-> TRUE, err |-> "", is |-> Some(Exists(path))]
    IN  /\ Idle
        /\ last' = [Cmd("validate_file_path") EXCEPT
                      !.path = path, !.ok = response.ok, !.err = response.err,
                      !.retBool = response.is]
        /\ UNCHANGED <<dirs, files, clock, made, gone>>

(***************************************************************************)
(* The store: every command on one base document, /data/house.json, and    *)
(* its snapshots, with the faults of writes and removals.                  *)
(***************************************************************************)
StorePaths == {HousePath, BackupPath(HousePath, InstantAt(0))} \cup DOMAIN files

Init == InitWith({Root, Cwd})

Next ==
    \/ Return
    \/ Tick(StoreTicks)
    \/ CreateDirectory(DataDir)
    \/ Idle /\ \E path \in StorePaths, data \in SaveValues, fault \in WriteFaults :
          SaveDataFile(path, data, fault)
    \/ Idle /\ \E data \in Docs, fault \in WriteFaults :
          CreateBackup(HousePath, data, fault)
    \/ Idle /\ \E keep_count \in 0..MaxKeep, order \in Orders(EntryNames(DataDir)) :
          CleanupOldBackups(DataDir, HouseStem, keep_count, order, NoFault)
    \/ Idle /\ \E order \in Orders(EntryNames(DataDir)) :
          ExportBackupList(DataDir, HouseStem, order, NoFault)
    \/ Idle /\ \E backup_path \in StorePaths, target_path \in StorePaths,
          fault \in WriteFaults, sameFile \in SameFileOutcomes :
          RestoreBackup(backup_path, target_path, fault, sameFile)
    \/ Idle /\ \E backup_path \in StorePaths, fails \in BOOLEAN :
          DeleteBackup(backup_path, fails)

Spec == Init /\ [][Next]_vars


(***************************************************************************)
(* The claims about the store.                                             *)
(***************************************************************************)
NotFound == "Backup file does not exist"

\* Whether path p existed when the command in flight was called (no
\* command but create_directory changes the directories).
ExistedBefore(p) == Canon(p) \in dirs \/ Canon(p) \in DOMAIN last.pre

\* The file the command in flight writes to.
WriteTarget ==
    CASE last.op = "create_backup" -> Canon(BackupPath(last.path, last.at))
      [] last.op = "save_data_file" -> Canon(last.path)
      [] last.op = "restore_backup" -> Canon(last.target)
      [] OTHER -> << >>

\* C2, as stated: a snapshot file holds the bytes written when create_backup
\* made it, for as long as it exists.
C2_SnapshotKeepsItsBytes ==
    \A s \in DOMAIN made : files[s].bytes = ToStringPretty(made[s].data)

\* C2, amended: a command changes the bytes of a snapshot only when it is a
\* create_backup, save_data_file or restore_backup that writes to the
\* snapshot's own path, and a snapshot goes only by cleanup_old_backups or
\* delete_backup.
C2_SnapshotChangedOnlyByWriteToItsPath ==
    \A s \in DOMAIN last.preMade :
        /\ s \notin DOMAIN files =>
               last.op \in {"cleanup_old_backups", "delete_backup"}
        /\ s \in DOMAIN files /\ files[s].bytes # last.pre[s].bytes =>
               /\ last.op \in {"create_backup", "save_data_file", "restore_backup"}
               /\ WriteTarget = s

\* A second create_backup in the same second has overwritten a snapshot.
C2_Witness ==
    /\ last.op = "create_backup"
    /\ last.ok
    /\ Canon(last.retPath) \in DOMAIN last.preMade
    /\ files[Canon(last.retPath)].bytes # last.pre[Canon(last.retPath)].bytes

\* C4: restore_backup of a backup path that does not exist fails with
\* "Backup file does not exist" and leaves every file, the target among
\* them, as it was.
C4_RestoreOfMissingBackupFails ==
    last.op = "restore_backup" /\ ~ExistedBefore(last.path) =>
        /\ ~last.ok
        /\ last.err = NotFound
        /\ files = last.pre

\* restore_backup of a missing backup onto a target that exists.
C4_Witness ==
    /\ last.op = "restore_backup"
    /\ ~ExistedBefore(last.path)
    /\ Canon(last.target) \in DOMAIN files
    /\ files[Canon(last.target)].bytes # << >>

\* C5, as stated: after a successful restore_backup of a snapshot the
\* target holds the bytes the snapshot held, and the snapshot is present
\* and unchanged.
C5_RestoreCopiesAndKeepsSnapshot ==
    last.op = "restore_backup" /\ last.ok
      /\ Canon(last.path) \in DOMAIN last.preMade =>
        /\ Canon(last.path) \in DOMAIN files
        /\ files[Canon(last.path)] = last.pre[Canon(last.path)]
        /\ Canon(last.target) \in DOMAIN files
        /\ files[Canon(last.target)].bytes = last.pre[Canon(last.path)].bytes

\* C6: delete_backup of a file that exists removes it, and nothing else,
\* unless the operating system refuses the removal; delete_backup of a path
\* that does not exist, one that an earlier delete_backup removed among
\* them, fails with "Backup file does not exist" and changes no file.
C6_DeleteRemovesThenFails ==
    /\ gone \cap DOMAIN files = {}
    /\ last.op = "delete_backup" =>
          /\ Canon(last.path) \in DOMAIN last.pre /\ ~last.fault.remove =>
                /\ last.ok
                /\ files = Removed(last.pre, {Canon(last.path)})
          /\ Canon(last.path) \in DOMAIN last.pre /\ last.fault.remove =>
                /\ ~last.ok
                /\ last.err = "Failed to delete backup"
                /\ files = last.pre
          /\ ~ExistedBefore(last.path) =>
                /\ ~last.ok
                /\ last.err = NotFound
                /\ files = last.pre

\* A second delete_backup of a snapshot that a first one removed.
C6_Witness ==
    /\ last.op = "delete_backup"
    /\ last.err = NotFound
    /\ Canon(last.path) \in gone
    /\ DOMAIN files # {}

\* C8: a successful create_backup for a base path for which a snapshot made
\* in the same UTC second still exists returns the path of that snapshot,
\* adds no file, and leaves the document of this second call in it; it is
\* the one snapshot of that base path and second.
C8_SameSecondOverwrites ==
    last.op = "create_backup" /\ last.ok =>
        \A f \in DOMAIN last.preMade :
            last.preMade[f].base = last.path
              /\ last.preMade[f].at.secs = last.at.secs =>
                /\ Canon(last.retPath) = f
                /\ DOMAIN files = DOMAIN last.pre
                /\ files[f].bytes = ToStringPretty(last.data.doc)
                /\ {g \in DOMAIN made : made[g].base = last.path
                                          /\ made[g].at.secs = last.at.secs} = {f}

\* Two create_backup calls at different instants of one second, with
\* different documents: the second has replaced the bytes of the first.
C8_Witness ==
    /\ last.op = "create_backup"
    /\ last.ok
    /\ \E f \in DOMAIN last.preMade :
          /\ last.preMade[f].base = last.path
          /\ last.preMade[f].at.secs = last.at.secs
          /\ last.preMade[f].at # last.at
          /\ last.preMade[f].data # last.data.doc
          /\ last.pre[f].bytes = ToStringPretty(last.preMade[f].data)
          /\ files[f].bytes # last.pre[f].bytes

\* Whether the file at canonical path f is in the directory and has a name
\* that begins with the stem and "_backup_" and ends with ".json".
NamedAsBackup(f, directory, file_stem) ==
    /\ Parent(f) = Some(Canon(directory))
    /\ IsBackupName(FileName(f)[1], file_stem)

\* Whether the command in flight left the file at path p as it was.
Untouched(p) ==
    Canon(p) \in DOMAIN last.pre =>
        Canon(p) \in DOMAIN files /\ files[Canon(p)] = last.pre[Canon(p)]

\* cleanup_old_backups leaves every file alone whose name is not that of a
\* backup of the stem; create_backup and export_backup_list leave the base
\* document alone.
PruneCreateListKeepBase ==
    /\ last.op = "cleanup_old_backups" =>
          \A f \in DOMAIN last.pre :
              ~NamedAsBackup(f, last.path, last.stem) => Untouched(f)
    /\ last.op \in {"cleanup_old_backups", "create_backup", "export_backup_list"} =>
          Untouched(HousePath)

\* C17: cleanup_old_backups leaves every file alone whose name is not that
\* of a backup of the stem, the base document among them; create_backup,
\* export_backup_list and delete_backup leave the base document alone.
C17_BaseDocumentNeverModified ==
    /\ PruneCreateListKeepBase
    /\ last.op = "delete_backup" => Untouched(HousePath)

(***************************************************************************)
(* Retention: snapshots of /data/house.json made over several seconds,     *)
(* pruned and listed in any directory order, with the faults of read_dir,  *)
(* of the metadata and of the removals.                                    *)
(***************************************************************************)
ScannedDirs == {DataDir, MissingDir}

InitRetention == InitWith({Root, Cwd, DataDir})

NextRetention ==
    \/ Return
    \/ Tick(RetentionTicks)
    \/ CreateBackup(HousePath, DefaultAppData, "none")
    \/ \E directory \in ScannedDirs, keep_count \in 0..MaxKeep :
          Cleanup(directory, HouseStem, keep_count)
    \/ \E directory \in ScannedDirs : List(directory, HouseStem)

SpecRetention == InitRetention /\ [][NextRetention]_vars

(***************************************************************************)
(* The claims about retention.                                             *)
(***************************************************************************)
\* The files of f in directory whose name matches file_stem.
Matching(f, directory, file_stem) ==
    {p \in DOMAIN f : /\ Parent(p) = Some(Canon(directory))
                      /\ IsBackupName(FileName(p)[1], file_stem)}

\* Whether the command in flight met no fault of the operating system.
Unhindered == last.fault = NoFault

\* C1: when the files of the directory that match the stem are N snapshots
\* that create_backup made for that stem, created at pairwise distinct
\* times, cleanup_old_backups with keep_count < N, met by no fault, removes
\* N - keep_count of them, each created before every one it leaves, leaves
\* keep_count, and touches no other file.
C1_PruneKeepsNewest ==
    LET before == Matching(last.pre, last.path, last.stem)
        after == Matching(files, last.path, last.stem)
        removed == before \ after
    IN  /\ last.op = "cleanup_old_backups"
        /\ Unhindered
        /\ Canon(last.path) \in dirs
        /\ \A s \in before :
              /\ s \in DOMAIN last.preMade
              /\ FileStem(last.preMade[s].base) = Some(last.stem)
        /\ \A s, t \in before : s # t => last.pre[s].created # last.pre[t].created
        /\ last.keep < Cardinality(before)
        => /\ files = Removed(last.pre, removed)
           /\ Cardinality(after) = last.keep
           /\ Cardinality(removed) = Cardinality(before) - last.keep
           /\ \A r \in removed, s \in after :
                 /\ TimeLE(last.pre[r].created, last.pre[s].created)
                 /\ last.pre[r].created # last.pre[s].created

\* Three snapshots, of which cleanup_old_backups kept one.
C1_Witness ==
    /\ last.op = "cleanup_old_backups"
    /\ Unhindered
    /\ last.keep = 1
    /\ Cardinality(Matching(last.pre, last.path, last.stem)) = 3
    /\ Matching(last.pre, last.path, last.stem) \subseteq DOMAIN last.preMade
    /\ Cardinality(Matching(files, last.path, last.stem)) = 1

\* C3: cleanup_old_backups returns Ok(()) whatever the directory holds and
\* whatever fails: the directory missing, read_dir failing, no entry
\* matching, every removal failing.
C3_PruneReturnsOk ==
    last.op = "cleanup_old_backups" => last.ok /\ last.err = ""

\* cleanup_old_backups found files to remove, and every removal failed.
C3_Witness ==
    /\ last.op = "cleanup_old_backups"
    /\ last.ok
    /\ Cardinality(last.fault.undeletable) >= 2
    /\ Cardinality(last.fault.undeletable) =
          Cardinality(Matching(last.pre, last.path, last.stem)) - last.keep
    /\ files = last.pre

\* The matching files of the directory scanned that were created before at
\* least keep_count others: the snapshots beyond keep_count, newest first.
BeyondKeep ==
    LET before == Matching(last.pre, last.path, last.stem)
    IN  {s \in before :
           Cardinality({t \in before \ {s} :
                          TimeLE(last.pre[s].created, last.pre[t].created)})
               >= last.keep}

\* Whether the scan of cleanup_old_backups saw every matching file, each
\* created at a time of its own.
ScanComplete ==
    /\ last.op = "cleanup_old_backups"
    /\ Canon(last.path) \in dirs
    /\ ~last.fault.readDir
    /\ last.fault.noMeta = {}
    /\ \A s, t \in Matching(last.pre, last.path, last.stem) :
          s # t => last.pre[s].created # last.pre[t].created

\* C14: whatever subset of the snapshots beyond keep_count cannot be
\* removed, cleanup_old_backups removes every other snapshot beyond
\* keep_count, leaves the ones it could not remove as they were, and
\* returns Ok(()).
C14_PruneGoesOnAfterFailedRemoval ==
    ScanComplete =>
        /\ last.ok
        /\ \A s \in BeyondKeep \ last.fault.undeletable : s \notin DOMAIN files
        /\ \A s \in BeyondKeep \cap last.fault.undeletable :
              s \in DOMAIN files /\ files[s] = last.pre[s]

\* Of three snapshots beyond keep_count the newest could not be removed,
\* and the two older ones were.
C14_Witness ==
    /\ ScanComplete
    /\ last.keep = 0
    /\ Cardinality(BeyondKeep) = 3
    /\ Cardinality(DOMAIN files \cap BeyondKeep) = 1
    /\ \E s \in BeyondKeep \cap last.fault.undeletable :
          \A t \in BeyondKeep : TimeLE(last.pre[t].created, last.pre[s].created)

\* C19: met by no fault, cleanup_old_backups with keep_count at least the
\* number of matching files removes nothing, and with keep_count = 0 it
\* removes every matching file, the snapshot just created among them.
C19_KeepCountEdges ==
    LET before == Matching(last.pre, last.path, last.stem)
    IN  last.op = "cleanup_old_backups" /\ Unhindered /\ Canon(last.path) \in dirs =>
            /\ last.keep >= Cardinality(before) => files = last.pre
            /\ last.keep = 0 =>
                  /\ Matching(files, last.path, last.stem) = {}
                  /\ files = Removed(last.pre, before)

\* cleanup_old_backups with keep_count = 0 removed three snapshots, one of
\* them created at the instant of the call.
C19_Witness ==
    LET before == Matching(last.pre, last.path, last.stem)
    IN  /\ last.op = "cleanup_old_backups"
        /\ Unhindered
        /\ last.keep = 0
        /\ Cardinality(before) = 3
        /\ \E s \in before \cap DOMAIN last.preMade : last.pre[s].created = last.at
        /\ DOMAIN files \cap before = {}

(***************************************************************************)
(* Listing: snapshots of /data/house.json beside a file a user saved under  *)
(* a matching name, so that files made in one second, at different         *)
(* fractions of it, are listed together.                                   *)
(***************************************************************************)
NotesPath ==
    DataDir \o <<Slash>> \o HouseStem \o BackupInfix \o <<"n", "o", "t", "e", "s">>
        \o JsonSuffix

InitListing == InitWith({Root, Cwd, DataDir})

NextListing ==
    \/ Return
    \/ Tick(ListingTicks)
    \/ CreateBackup(HousePath, DefaultAppData, "none")
    \/ SaveDataFile(NotesPath, StringValue(CsvText), "none")
    \/ \E directory \in ScannedDirs : List(directory, HouseStem)

SpecListing == InitListing /\ [][NextListing]_vars

\* The creation time of the file an entry of a list names.
CreatedOf(entry) == files[Canon(entry.path)].created

\* C9: export_backup_list returns Ok; the list is empty when the directory
\* does not exist or holds no matching file; each entry before another has
\* a creation time greater than or equal to the other's; and, met by no
\* fault, the list holds one entry for each matching file.
C9_ListNewestFirst ==
    last.op = "export_backup_list" =>
        LET matching == Matching(files, last.path, last.stem)
            listed == {Canon(last.retList[i].path) : i \in DOMAIN last.retList}
        IN  /\ last.ok
            /\ ~ExistedBefore(last.path) \/ matching = {} => last.retList = << >>
            /\ listed \subseteq matching
            /\ \A i \in 1..(Len(last.retList) - 1) :
                  TimeLE(CreatedOf(last.retList[i + 1]), CreatedOf(last.retList[i]))
            /\ Unhindered /\ ExistedBefore(last.path) =>
                  /\ listed = matching
                  /\ Len(last.retList) = Cardinality(matching)

\* A list of three files, two of them made in one second.
C9_Witness ==
    /\ last.op = "export_backup_list"
    /\ Len(last.retList) = 3
    /\ CreatedOf(last.retList[1]).secs # CreatedOf(last.retList[2]).secs
    /\ CreatedOf(last.retList[2]).secs = CreatedOf(last.retList[3]).secs
    /\ CreatedOf(last.retList[2]).nanos # CreatedOf(last.retList[3]).nanos

(***************************************************************************)
(* Naming: snapshots of base documents named in several ways (absolute,    *)
(* with two extensions, a bare file name, the root), made within one       *)
(* second, listed and pruned by the directory and the stem create_backup   *)
(* derives from the base path, and deleted.  A stem has one snapshot at    *)
(* most here, so keeping none and keeping one are all that pruning can do. *)
(***************************************************************************)
TarPath == DataDir \o <<Slash>> \o HouseStem \o <<".", "t", "a", "r">> \o JsonSuffix
PlainPath == DataDir \o <<Slash>> \o HouseStem
BarePath == HouseStem \o JsonSuffix

NamingPaths == {HousePath, TarPath, PlainPath, BarePath, Root}

InitNaming == InitWith({Root, Cwd, DataDir})

NextNaming ==
    \/ Return
    \/ Tick(NamingTicks)
    \/ Idle /\ \E path \in NamingPaths : CreateBackup(path, DarkAppData, "none")
    \/ Idle /\ \E path \in NamingPaths :
          \E order \in Orders(EntryNames(Canon(BackupDir(path)))) :
             ExportBackupList(BackupDir(path), BackupStem(path), order, NoFault)
    \/ Idle /\ \E path \in NamingPaths, keep_count \in {0, 1} :
          \E order \in Orders(EntryNames(Canon(BackupDir(path)))) :
             CleanupOldBackups(BackupDir(path), BackupStem(path), keep_count,
                               order, NoFault)
    \/ Idle /\ \E backup_path \in DOMAIN files : DeleteBackup(backup_path, FALSE)

SpecNaming == InitNaming /\ [][NextNaming]_vars

(***************************************************************************)
(* The claims about naming.                                                *)
(***************************************************************************)
\* A file name without its final extension: what stands before its last
\* dot, the whole name when it has no dot after its first character.
WithoutFinalExtension(name) ==
    IF \E i \in 2..Len(name) : name[i] = "."
    THEN SubSeq(name, 1,
             (CHOOSE i \in 2..Len(name) :
                 name[i] = "." /\ \A j \in (i + 1)..Len(name) : name[j] # ".") - 1)
    ELSE name

\* /data/house_backup_2024-03-05_10-15-30.json
ExampleSnapshot ==
    <<"/", "d", "a", "t", "a", "/", "h", "o", "u", "s", "e", "_", "b", "a", "c",
      "k", "u", "p", "_", "2", "0", "2", "4", "-", "0", "3", "-", "0", "5", "_",
      "1", "0", "-", "1", "5", "-", "3", "0", ".", "j", "s", "o", "n">>

\* C7: a successful create_backup(path, data) at instant T returns the path
\* of the file {stem}_backup_{YYYY-MM-DD_HH-MM-SS of T}.json in the parent
\* directory of path (the working directory when path has none), stem being
\* the file name of path without its final extension ("backup" when path
\* has no file name), and that file holds the pretty-printed JSON of data;
\* for /data/house.json at 2024-03-05T10:15:30Z the path is
\* /data/house_backup_2024-03-05_10-15-30.json.
C7_CreateNamesAndWritesSnapshot ==
    last.op = "create_backup" /\ last.ok =>
        LET stem == IF FileName(last.path) = None THEN <<"b", "a", "c", "k", "u", "p">>
                    ELSE WithoutFinalExtension(FileName(last.path)[1])
            name == stem \o <<"_", "b", "a", "c", "k", "u", "p", "_">>
                         \o FormatTimestamp(last.at) \o <<".", "j", "s", "o", "n">>
            dir == IF Parent(last.path) = None \/ Parent(last.path) = Some(<< >>)
                   THEN Cwd
                   ELSE Parent(last.path)[1]
        IN  /\ FileName(last.retPath) = Some(name)
            /\ Canon(last.retPath) = dir \o <<"/">> \o name
            /\ Canon(last.retPath) \in DOMAIN files
            /\ files[Canon(last.retPath)].bytes = ToStringPretty(last.data.doc)
            /\ \A f \in DOMAIN last.pre \ {Canon(last.retPath)} :
                  f \in DOMAIN files /\ files[f] = last.pre[f]
            /\ last.path = HousePath /\ last.at.secs = Epoch0 =>
                  last.retPath = ExampleSnapshot

\* create_backup of /data/house.tar.json, a name with two extensions, has
\* made a new file.
C7_Witness ==
    /\ last.op = "create_backup"
    /\ last.ok
    /\ last.path = TarPath
    /\ Canon(last.retPath) \notin DOMAIN last.pre
    /\ Canon(last.retPath) \in DOMAIN files

\* C10, as stated: export_backup_list, met by no fault, of the directory and
\* the stem create_backup derived from a base path has an entry with the
\* path create_backup returned, for every snapshot made for that base path
\* that has not been removed since.
C10_ListHasEverySnapshotMade ==
    last.op = "export_backup_list" /\ Unhindered =>
        \A s \in DOMAIN made :
            /\ BackupDir(made[s].base) = last.path
            /\ BackupStem(made[s].base) = last.stem
            => \E i \in DOMAIN last.retList :
                  last.retList[i].path = BackupPath(made[s].base, made[s].at)


(***************************************************************************)
(* The document: /data/house.json saved, loaded, backed up and restored,   *)
(* with documents and texts of every kind load tells apart.                *)
(***************************************************************************)
DocumentTicks == 1

DocumentDocs == {DarkAppData, SmithAppData}

\* A text that begins with the object marker and is not JSON.
BadText == <<"{", "bad">>

\* A document written by hand: members in another order, a member the
\* struct does not have, an Option left out, no white space.
HandWrittenText ==
    <<"{">> \o JsonString("version") \o <<":">> \o JsonString("1.0.0") \o <<",">>
    \o JsonString("note") \o <<":">> \o <<"[", "1", ",", "null", "]">> \o <<",">>
    \o JsonString("settings") \o <<":">>
    \o <<"{">> \o JsonString("backup_count") \o <<":">> \o <<"1", "0">> \o <<",">>
    \o JsonString("theme") \o <<":">> \o JsonString("light") \o <<",">>
    \o JsonString("auto_backup") \o <<":">> \o <<"true">> \o <<"}">> \o <<",">>
    \o JsonString("households") \o <<":">> \o <<"[", "]">> \o <<"}">>

\* The texts saved as raw text: CSV, a text that is not JSON, BadText, an
\* object that is no AppData, a document followed by more text, a document
\* after a space, and HandWrittenText.
DocumentTexts ==
    {CsvText, <<"not json">>, BadText, <<"{", "}">>,
     ToStringPretty(DarkAppData) \o <<"\n", "x">>,
     <<" ">> \o ToStringPretty(DarkAppData), HandWrittenText}

DocumentValues ==
    {ObjectValue(d) : d \in DocumentDocs} \cup {StringValue(t) : t \in DocumentTexts}

\* The paths validate_file_path is called with: the base document, its
\* directory, the root, a bare file name, a path in a directory that does
\* not exist, and a path below the base document.
ValidatedPaths ==
    {HousePath, DataDir, Root, BarePath,
     MissingDir \o <<Slash>> \o BarePath, HousePath \o <<Slash, "x">>}

InitDocument == InitWith({Root, Cwd, DataDir})

NextDocument ==
    \/ Return
    \/ Tick(DocumentTicks)
    \/ Idle /\ \E data \in DocumentDocs : CreateBackup(HousePath, data, "none")
    \/ Idle /\ \E data \in DocumentValues, fault \in {"none", "partial"} :
          SaveDataFile(HousePath, data, fault)
    \/ Idle /\ \E backup_path \in DOMAIN files :
          RestoreBackup(backup_path, HousePath, "none", "truncated")
    \/ Idle /\ \E path \in {HousePath, DataDir} \cup DOMAIN files, unreadable \in BOOLEAN :
          LoadDataFile(path, unreadable)
    \/ Idle /\ \E path \in ValidatedPaths : ValidateFilePath(path)

SpecDocument == InitDocument /\ [][NextDocument]_vars

FormatError == "File is not a valid JSON data file"
ParseError == "Failed to parse JSON"

\* The content of the file load was called on.
Loaded == last.pre[Canon(last.path)].bytes

\* Whether load was called on a file and read it.
LoadRead ==
    /\ last.op = "load_data_file"
    /\ Canon(last.path) \in DOMAIN last.pre
    /\ ~last.fault.read

\* C11: load of a path that does not exist returns the default document
\* (no households, theme "light", auto_backup true, backup_count 10); load
\* of a file that is read fails with the format error when its content does
\* not begin with the object marker, and with the parse error when it does
\* but is not a well-formed document; load never changes a file.
C11_LoadClassifiesAndKeepsFile ==
    last.op = "load_data_file" =>
        /\ files = last.pre
        /\ ~ExistedBefore(last.path) =>
              /\ last.ok
              /\ last.retDoc # None
              /\ last.retDoc[1].households = << >>
              /\ last.retDoc[1].settings.theme = "light"
              /\ last.retDoc[1].settings.auto_backup = TRUE
              /\ last.retDoc[1].settings.backup_count = 10
        /\ LoadRead /\ ~StartsWith(Loaded, JsonMarker) =>
              ~last.ok /\ last.err = FormatError /\ last.retDoc = None
        /\ LoadRead /\ StartsWith(Loaded, JsonMarker) /\ ~FromStr(Loaded).ok =>
              ~last.ok /\ last.err = ParseError /\ last.retDoc = None

\* load answered the parse error for the text "{bad" and left it in place.
C11_Witness ==
    /\ LoadRead
    /\ Loaded = BadText
    /\ last.err = ParseError
    /\ files[Canon(last.path)].bytes = BadText

Returned(doc) == [ok |-> TRUE, err |-> "", doc |-> Some(doc)]

\* C12: after a successful save of a structured document D to a path, the
\* file holds the pretty-printed JSON of D and load of that path returns a
\* document equal to D.
C12_SaveThenLoadReturnsDocument ==
    /\ (last.op = "save_data_file" /\ last.ok /\ last.data.kind = "object") =>
          /\ files[Canon(last.path)].bytes = ValueToStringPretty(last.data.doc)
          /\ LoadResponse(last.path, FALSE) = Returned(last.data.doc)
    /\ \A D \in DocumentDocs :
          LoadRead /\ Loaded = ValueToStringPretty(D) =>
              last.ok /\ last.retDoc = Some(D)

\* load returned the document with a household from the file a save of it
\* wrote.
C12_Witness ==
    /\ LoadRead
    /\ Loaded = ValueToStringPretty(SmithAppData)
    /\ last.retDoc = Some(SmithAppData)
    /\ last.retDoc[1].households[1].assigned_month = Some("2024-06")
    /\ last.retDoc[1].households[1].last_review_date = None

\* C18: create_backup of D writes the pretty-printed JSON of D to the
\* snapshot; a save to the base path leaves every other file as it was;
\* and after a successful restore of a snapshot holding the JSON of D onto
\* the base path, the snapshot is as it was and load of the base path
\* returns D.
C18_RestoreRecoversDocument ==
    /\ last.op = "create_backup" /\ last.ok =>
          files[Canon(last.retPath)].bytes = ToStringPretty(last.data.doc)
    /\ last.op = "save_data_file" =>
          \A s \in DOMAIN last.pre \ {Canon(last.path)} : Untouched(s)
    /\ \A D \in DocumentDocs :
          /\ last.op = "restore_backup"
          /\ last.ok
          /\ Canon(last.path) \in DOMAIN last.preMade
          /\ last.pre[Canon(last.path)].bytes = ToStringPretty(D)
          => /\ Untouched(last.path)
             /\ LoadResponse(last.target, FALSE) = Returned(D)
    /\ \A D \in DocumentDocs :
          LoadRead /\ Loaded = ToStringPretty(D) => last.ok /\ last.retDoc = Some(D)

\* load of the base path returned the document with a household from the
\* bytes of a snapshot: save_data_file prints the settings in another
\* order, so these bytes came there by a restore.
C18_Witness ==
    /\ LoadRead
    /\ last.path = HousePath
    /\ Loaded = ToStringPretty(SmithAppData)
    /\ Loaded # ValueToStringPretty(SmithAppData)
    /\ last.retDoc = Some(SmithAppData)
    /\ \E s \in DOMAIN made : files[s].bytes = Loaded

InvalidPathErrors == {"Path must be absolute", "Parent directory does not exist"}

InvalidPath == ~last.ok /\ last.err \in InvalidPathErrors /\ last.retBool = None

\* Whether the path validate was called with has a parent that is not a
\* directory of the file system.
ParentDirectoryMissing ==
    Parent(last.path) # None /\ Canon(Parent(last.path)[1]) \notin dirs

\* C13: validate fails with an invalid-path error for a relative path and
\* for an absolute path whose parent directory does not exist; otherwise it
\* returns true exactly when the target exists; it never changes the file
\* system.
C13_ValidateRejectsMissingParentDirectory ==
    last.op = "validate_file_path" =>
        /\ files = last.pre
        /\ IF ~IsAbsolute(last.path) THEN InvalidPath
           ELSE IF ParentDirectoryMissing THEN InvalidPath
           ELSE last.ok /\ last.retBool = Some(ExistedBefore(last.path))

\* The same with the parent tested as validate_file_path tests it: the
\* parent path exists, as a directory or as a file.
ValidateAsCoded ==
    last.op = "validate_file_path" =>
        /\ files = last.pre
        /\ IF ~IsAbsolute(last.path) THEN InvalidPath
           ELSE IF Parent(last.path) # None /\ ~ExistedBefore(Parent(last.path)[1])
           THEN InvalidPath
           ELSE last.ok /\ last.retBool = Some(ExistedBefore(last.path))


(***************************************************************************)
(* Two base documents in one directory, the stem of one a prefix of the    *)
(* other's: /data/house.json and /data/house_backup_old.json.              *)
(***************************************************************************)
StemsTicks == 3

OldStem == HouseStem \o BackupInfix \o <<"o", "l", "d">>
OldPath == DataDir \o <<Slash>> \o OldStem \o JsonSuffix
Stems == {HouseStem, OldStem}

InitStems == InitWith({Root, Cwd, DataDir})

\* /data/house.json is backed up at any time, /data/house_backup_old.json
\* at the first instant.
NextStems ==
    \/ Return
    \/ Tick(StemsTicks)
    \/ CreateBackup(HousePath, DefaultAppData, "none")
    \/ clock = 0 /\ CreateBackup(OldPath, DarkAppData, "none")
    \/ Idle /\ \E file_stem \in Stems, keep_count \in 0..2,
          order \in Orders(EntryNames(DataDir)) :
          CleanupOldBackups(DataDir, file_stem, keep_count, order, NoFault)
    \/ Idle /\ \E file_stem \in Stems, order \in Orders(EntryNames(DataDir)) :
          ExportBackupList(DataDir, file_stem, order, NoFault)

SpecStems == InitStems /\ [][NextStems]_vars

\* The paths of the entries i..j of a list.
PathsOf(list, i, j) == {Canon(list[k].path) : k \in i..(IF j < Len(list) THEN j ELSE Len(list))}

\* C15: when cleanup_old_backups meets no fault, the matching files it
\* leaves are the first keep_count entries of the list export_backup_list
\* returns for the same directory and stem in the state before the call,
\* read in the same order, and the files it removes are the entries after
\* them.
C15_PruneAgreesWithList ==
    [][(last'.op = "cleanup_old_backups" /\ last'.fault = NoFault) =>
          LET list == ListedBackups(last'.path, last'.stem, last'.order, NoFault)
          IN  /\ DOMAIN files' \subseteq DOMAIN files
              /\ {f \in DOMAIN files' : NamedAsBackup(f, last'.path, last'.stem)}
                    = PathsOf(list, 1, last'.keep)
              /\ DOMAIN files \ DOMAIN files'
                    = PathsOf(list, last'.keep + 1, Len(list))]_vars

\* cleanup_old_backups kept two of three matching files, two of which were
\* created at the same instant, and removed one of these two.
C15_Witness ==
    LET before == Matching(last.pre, last.path, last.stem)
    IN  /\ last.op = "cleanup_old_backups"
        /\ last.keep = 2
        /\ Cardinality(before) = 3
        /\ Cardinality(before \cap DOMAIN files) = 2
        /\ \E s \in before \cap DOMAIN files, t \in before \ DOMAIN files :
              last.pre[s].created = last.pre[t].created

\* C16: cleanup_old_backups for a stem never removes a snapshot that
\* create_backup made for a base document with another stem.
C16_PruneKeepsOtherStems ==
    last.op = "cleanup_old_backups" =>
        \A s \in DOMAIN last.pre \cap DOMAIN last.preMade :
            FileStem(last.preMade[s].base) # Some(last.stem) => s \in DOMAIN files
====
